---- MODULE Spec2Model ----
(***************************************************************************)
(* HistServ (irc/histserv.go): the EXPORT handler and its detached export  *)
(* goroutine, the DELETE handler and its authorization, and the PLAY       *)
(* handler with easySelectHistory.                                         *)
(***************************************************************************)
EXTENDS Integers, Sequences, FiniteSets, TLC

VARIABLES
    clients,    \* server.clients: the connection registered under the requester's nick
    units,      \* the histservExportAndNotify goroutines, one slot per `go` statement
    handler,    \* the EXPORT handler of the requester's connection: position, notice, goroutine
    crashed,    \* TRUE once a panic left a goroutine unrecovered (the process dies)
    world,      \* what the DELETE handler reads: config, role, chanop status, account
    del,        \* the DELETE handler: its locals, its store call and its notice
    store,      \* the items the history sequence returns to Between
    play,       \* the PLAY handler: the queries it issued and the lines it sent
    forget      \* the FORGET handler: its lookup, its store call and its notices

vars == <<clients, units, handler, crashed, world, del, store, play, forget>>

exportVars == <<clients, units, handler, crashed>>
deleteVars == <<world, del>>
playVars == <<store, play>>
forgetVars == <<forget>>

(***************************************************************************)
(* Bounds                                                                  *)
(***************************************************************************)
\* the number of export goroutines one behaviour starts
MaxUnits == 2

Units == 1..MaxUnits

\* the length of the second parameter of PLAY, in characters
MaxLen == 3

\* how many times x occurs in the sequence s
Count(s, x) == Cardinality({i \in 1..Len(s) : s[i] = x})

\* the first position of x in s (0 when absent)
Pos(s, x) == IF \E i \in 1..Len(s) : s[i] = x
             THEN CHOOSE i \in 1..Len(s) : s[i] = x /\ \A j \in 1..(i-1) : s[j] # x
             ELSE 0

(***************************************************************************)
(* EXPORT                                                                  *)
(***************************************************************************)
\* params[0] of EXPORT
AccountArgs == {"Alice", "alice", "a*b"}

\* CasefoldName(params[0]): the casefolded name, or an error
CasefoldName(name) ==
    CASE name = "Alice" -> [err |-> FALSE, name |-> "alice"]
      [] name = "alice" -> [err |-> FALSE, name |-> "alice"]
      [] OTHER          -> [err |-> TRUE, name |-> ""]

\* a slot no `go` statement has filled yet
NoUnit ==
    [pc |-> "idle", cfAccount |-> "", outfile |-> "nil", opened |-> FALSE,
     outcome |-> "none", faulted |-> FALSE,
     seen |-> [present |-> FALSE, oper |-> FALSE],
     logged |-> 0, trace |-> <<>>]

\* the goroutine as `go histservExportAndNotify(...)` leaves it: started, no
\* statement of it executed; outfile is os.Create's result, nil when it failed
NewUnit(cfAccount, opened) ==
    [NoUnit EXCEPT !.pc = "start", !.cfAccount = cfAccount,
                   !.outfile = IF opened THEN "open" ELSE "nil",
                   !.opened = opened]

\* the slot the next `go` statement fills
FreeUnit ==
    CHOOSE u \in Units : units[u].pc = "idle" /\ \A v \in 1..(u-1) : units[v].pc # "idle"

\* the handler with nothing to do
HandlerIdle == [pc |-> "idle", arg |-> "", create |-> "none", notices |-> <<>>, unit |-> 0]

\* whether the `go` statement of line 156 is reached after os.Create: the
\* branch of a failed os.Create sends its notice and does not return
ReachesGo(opened) == TRUE

\* a faulty variant of ExportHandler: no return after 'Invalid account name'
ExportHandlerNoReturn(arg, opened) ==
    /\ ~crashed
    /\ handler.pc = "idle"
    /\ clients.present /\ clients.oper
    /\ \E u \in Units : units[u].pc = "idle"
    /\ LET cf == CasefoldName(arg) IN
       /\ handler' = [pc |-> "return", arg |-> arg,
                      create |-> IF opened THEN "ok" ELSE "failed",
                      notices |-> (IF cf.err THEN <<"Invalid account name">> ELSE <<>>)
                                  \o <<IF opened THEN "Started exporting data"
                                       ELSE "Error opening export file">>,
                      unit |-> FreeUnit]
       /\ units' = [units EXCEPT ![FreeUnit] = NewUnit(cf.name, opened)]
    /\ UNCHANGED <<clients, crashed, deleteVars, playVars, forgetVars>>

\* lines 139-156: casefold, create the file, send one notice, start the goroutine
ExportHandler(arg, opened) ==
    /\ ~crashed
    /\ handler.pc = "idle"
    /\ clients.present /\ clients.oper
    /\ \E u \in Units : units[u].pc = "idle"
    /\ LET cf == CasefoldName(arg) IN
       IF cf.err
       THEN /\ handler' = [pc |-> "return", arg |-> arg, create |-> "none",
                           notices |-> <<"Invalid account name">>, unit |-> 0]
            /\ UNCHANGED units
       ELSE /\ handler' = [pc |-> "return", arg |-> arg,
                           create |-> IF opened THEN "ok" ELSE "failed",
                           notices |-> <<IF opened THEN "Started exporting data"
                                         ELSE "Error opening export file">>,
                           unit |-> IF ReachesGo(opened) THEN FreeUnit ELSE 0]
            /\ units' = IF ReachesGo(opened)
                        THEN [units EXCEPT ![FreeUnit] = NewUnit(cf.name, opened)]
                        ELSE units
    /\ UNCHANGED <<clients, crashed, deleteVars, playVars, forgetVars>>

\* a faulty variant of GoReturns: a plain call, which returns when the callee has
GoReturnsWhenDone(u) == u = 0 \/ units[u].pc = "done"

\* a `go` statement completes at once, whatever the new goroutine does
GoReturns(u) == TRUE

\* lines 142 and 157: the handler returns; the connection takes its next command
ExportHandlerReturn ==
    /\ ~crashed
    /\ handler.pc = "return"
    /\ GoReturns(handler.unit)
    /\ handler' = HandlerIdle
    /\ UNCHANGED <<clients, units, crashed, deleteVars, playVars, forgetVars>>

(***************************************************************************)
(* histservExportAndNotify                                                 *)
(***************************************************************************)
\* a faulty variant of DeferredCalls: the cleanup written at the end of the function
\* body, which a panic skips
DeferredCallsInline(panicking) ==
    IF panicking THEN <<"recover">> ELSE <<"flush", "close", "recover">>

\* a faulty variant of DeferredCalls: the deferred calls run in the order they
\* were registered in
DeferredCallsCloseFirst(panicking) == <<"recover", "close", "flush">>

\* the deferred calls in the order they run when the function returns or
\* panics, last registered first: writer.Flush (169), outfile.Close (167), the
\* recover closure (160)
DeferredCalls(panicking) == <<"flush", "close", "recover">>

\* a faulty variant of Recover: no recover() in the deferred closure
NoRecover(panicking) == [caught |-> FALSE, escapes |-> panicking]

\* lines 161-164: recover() stops a panic, and the closure logs it
Recover(panicking) == [caught |-> panicking, escapes |-> FALSE]

\* what is left of a panic after the deferred calls have run
AfterDeferred(calls, panicking) ==
    IF Count(calls, "recover") > 0
    THEN Recover(panicking)
    ELSE [caught |-> FALSE, escapes |-> panicking]

\* the calls on the writer and the file among the deferred calls
IsFileCall(c) == c \in {"flush", "close"}

\* the function returns or panics: the unit record after its deferred calls
Unwind(unit, panicking) ==
    LET calls == DeferredCalls(panicking)
        rest == AfterDeferred(calls, panicking)
    IN [unit EXCEPT
            !.pc = IF rest.escapes THEN "crashed" ELSE "done",
            !.faulted = panicking,
            !.outfile = IF @ = "open" /\ Count(calls, "close") > 0 THEN "closed" ELSE @,
            !.logged = IF rest.caught THEN @ + 1 ELSE @,
            !.trace = @ \o SelectSeq(calls, IsFileCall)]

\* lines 160-171: register the deferred calls, make the writer, call Export
UnitExportCall(u) ==
    /\ ~crashed
    /\ units[u].pc = "start"
    /\ units' = [units EXCEPT ![u].pc = "in_export",
                              ![u].trace = Append(@, "export")]
    /\ UNCHANGED <<clients, handler, crashed, deleteVars, playVars, forgetVars>>

\* line 171: server.historyDB.Export returns (its error is dropped) or panics
UnitExportReturn(u, outcome) ==
    /\ ~crashed
    /\ units[u].pc = "in_export"
    /\ LET unit == [units[u] EXCEPT !.outcome = outcome] IN
       IF outcome = "panic"
       THEN /\ units' = [units EXCEPT ![u] = Unwind(unit, TRUE)]
            /\ crashed' = (Unwind(unit, TRUE).pc = "crashed")
       ELSE /\ units' = [units EXCEPT ![u] = [unit EXCEPT !.pc = "lookup"]]
            /\ UNCHANGED crashed
    /\ UNCHANGED <<clients, handler, deleteVars, playVars, forgetVars>>

\* a faulty variant of MayNotify: the role is not checked again
MayNotifyAnyClient(c) == c.present

\* line 174: client != nil && client.HasRoleCapabs("history")
MayNotify(c) == c.present /\ c.oper

\* lines 173-174: server.clients.Get(alertNick) and the test of its result;
\* with no client to notify the function returns
UnitLookup(u) ==
    /\ ~crashed
    /\ units[u].pc = "lookup"
    /\ LET unit == [units[u] EXCEPT !.seen = clients, !.trace = Append(@, "lookup")] IN
       units' = [units EXCEPT ![u] = IF MayNotify(clients)
                                     THEN [unit EXCEPT !.pc = "send"]
                                     ELSE Unwind(unit, FALSE)]
    /\ UNCHANGED <<clients, handler, crashed, deleteVars, playVars, forgetVars>>

\* line 175: client.Send delivers the completion notice, or panics; then the
\* function returns
UnitSend(u, fault) ==
    /\ ~crashed
    /\ units[u].pc = "send"
    /\ LET unit == [units[u] EXCEPT !.trace = IF fault THEN @ ELSE Append(@, "notice")] IN
       /\ units' = [units EXCEPT ![u] = Unwind(unit, fault)]
       /\ crashed' = (Unwind(unit, fault).pc = "crashed")
    /\ UNCHANGED <<clients, handler, deleteVars, playVars, forgetVars>>

\* one statement of goroutine u
UnitStep(u) ==
    \/ UnitExportCall(u)
    \/ \E outcome \in {"ok", "err", "panic"} : UnitExportReturn(u, outcome)
    \/ UnitLookup(u)
    \/ \E fault \in BOOLEAN : UnitSend(u, fault)

\* the requester's connection closes
ClientQuit ==
    /\ ~crashed
    /\ clients.present
    /\ clients' = [present |-> FALSE, oper |-> FALSE]
    /\ UNCHANGED <<units, handler, crashed, deleteVars, playVars, forgetVars>>

\* a connection registers under the requester's nick
ClientConnect ==
    /\ ~crashed
    /\ ~clients.present
    /\ clients' = [present |-> TRUE, oper |-> FALSE]
    /\ UNCHANGED <<units, handler, crashed, deleteVars, playVars, forgetVars>>

\* the connection gains or loses the "history" role capability
ClientSetOper(b) ==
    /\ ~crashed
    /\ clients.present
    /\ clients.oper # b
    /\ clients' = [clients EXCEPT !.oper = b]
    /\ UNCHANGED <<units, handler, crashed, deleteVars, playVars, forgetVars>>

(***************************************************************************)
(* DELETE                                                                  *)
(***************************************************************************)
\* the channels of the server, and the targets a DELETE may name ("" when
\* only the msgid is given)
Channels == {"#general"}
Targets == {"", "#general", "#nochan"}
Msgids == {"abc123"}

\* what client.AccountName() returns for an actor that is not logged in
NoAccount == "*"

\* client.AccountName(): NoAccount while the client is logged out
Accounts == {NoAccount, "alice"}

\* what server.DeleteMessage returns
StoreErrors == {"nil", "no such message", "database failure"}

\* the params of DELETE: <<msgid>> or <<target, msgid>>
DeleteParams == {<<m>> : m \in Msgids} \cup {<<t, m>> : t \in Targets, m \in Msgids}

\* lines 99-104
ParamTarget(params) == IF Len(params) = 1 THEN "" ELSE params[1]
ParamMsgid(params) == IF Len(params) = 1 THEN params[1] ELSE params[2]

\* the state before the first request, and between the specifications
World0 == [allow |-> FALSE, oper |-> FALSE, account |-> NoAccount, opIn |-> {}]

DelIdle ==
    [pc |-> "idle", target |-> "", msgid |-> "", in |-> World0,
     isOper |-> FALSE, isChanop |-> FALSE, accountName |-> "*", denied |-> FALSE,
     calls |-> <<>>, err |-> "nil", notice |-> <<>>]

\* a faulty variant of Authorize: AllowIndividualDelete is not consulted
AuthorizeIgnoringConfig(w, target) ==
    LET isOper == w.oper
        isChanop == ~isOper /\ target \in Channels /\ target \in w.opIn
        accountName == IF ~isOper /\ ~isChanop THEN w.account ELSE "*"
    IN [isOper |-> isOper, isChanop |-> isChanop, accountName |-> accountName,
        denied |-> ~isOper /\ ~isChanop /\ accountName = "*"]

\* a faulty variant of Authorize: only the configuration can deny
AuthorizeAnyone(w, target) ==
    LET isOper == w.oper
        consulted == ~isOper /\ w.allow
        isChanop == consulted /\ target \in Channels /\ target \in w.opIn
        accountName == IF consulted /\ ~isChanop THEN w.account ELSE "*"
    IN [isOper |-> isOper, isChanop |-> isChanop, accountName |-> accountName,
        denied |-> ~isOper /\ ~consulted]

\* lines 108-121: the locals accountName, isChanop, isOper and the test of
\* line 121
Authorize(w, target) ==
    LET isOper == w.oper
        consulted == ~isOper /\ w.allow
        isChanop == consulted /\ target \in Channels /\ target \in w.opIn
        accountName == IF consulted /\ ~isChanop THEN w.account ELSE "*"
    IN [isOper |-> isOper, isChanop |-> isChanop, accountName |-> accountName,
        denied |-> ~isOper /\ ~isChanop /\ accountName = "*"]

\* lines 98-124: parse the params, decide, and on denial send the notice and return
DeleteAuthorize(params) ==
    /\ del.pc \in {"idle", "done"}
    /\ LET target == ParamTarget(params)
           a == Authorize(world, target)
       IN del' = [DelIdle EXCEPT
                    !.pc = IF a.denied THEN "done" ELSE "authorized",
                    !.target = target, !.msgid = ParamMsgid(params), !.in = world,
                    !.isOper = a.isOper, !.isChanop = a.isChanop,
                    !.accountName = a.accountName, !.denied = a.denied,
                    !.notice = IF a.denied THEN <<"Insufficient privileges">> ELSE <<>>]
    /\ UNCHANGED <<world, exportVars, playVars, forgetVars>>

\* a faulty variant of AuthorArg: the account is read again when the call is made
AuthorArgReread(d, w) == IF d.isOper \/ d.isChanop THEN "*" ELSE w.account

\* line 126: the third argument of server.DeleteMessage is the local accountName
AuthorArg(d, w) == d.accountName

\* a faulty variant of DeleteReply: the error is shown to everyone
DeleteReplyDetailed(isOper, err) ==
    IF err = "nil" THEN <<"Successfully deleted message">>
    ELSE <<"Error deleting message: %v", err>>

\* lines 127-135: the notice after the store call
DeleteReply(isOper, err) ==
    IF err = "nil" THEN <<"Successfully deleted message">>
    ELSE IF isOper THEN <<"Error deleting message: %v", err>>
    ELSE <<"Could not delete message">>

\* lines 126-135: call server.DeleteMessage and report its result
DeleteMessageCall(err) ==
    /\ del.pc = "authorized"
    /\ del' = [del EXCEPT
                 !.pc = "done",
                 !.calls = Append(@, [target |-> del.target, msgid |-> del.msgid,
                                      accountName |-> AuthorArg(del, world)]),
                 !.err = err,
                 !.notice = DeleteReply(del.isOper, err)]
    /\ UNCHANGED <<world, exportVars, playVars, forgetVars>>

\* a rehash changes History.Retention.AllowIndividualDelete
SetAllowIndividualDelete(b) ==
    /\ world.allow # b
    /\ world' = [world EXCEPT !.allow = b]
    /\ UNCHANGED <<del, exportVars, playVars, forgetVars>>

\* the actor gains or loses the "history" role capability
SetRole(b) ==
    /\ world.oper # b
    /\ world' = [world EXCEPT !.oper = b]
    /\ UNCHANGED <<del, exportVars, playVars, forgetVars>>

\* the actor logs in to an account, or out of it
SetAccount(a) ==
    /\ world.account # a
    /\ world' = [world EXCEPT !.account = a]
    /\ UNCHANGED <<del, exportVars, playVars, forgetVars>>

\* the actor is given or loses channel-operator status in a channel
SetChanop(c, b) ==
    /\ (c \in world.opIn) # b
    /\ world' = [world EXCEPT !.opIn = IF b THEN @ \cup {c} ELSE @ \ {c}]
    /\ UNCHANGED <<del, exportVars, playVars, forgetVars>>

(***************************************************************************)
(* FORGET: histservForgetHandler                                           *)
(***************************************************************************)
\* params[0] of FORGET
ForgetArgs == {"alice", "bob"}

\* what server.accounts.AccountToAccountName returns: the stored name of the
\* account, "" when it finds none
LookupResults == {"", "Alice"}

ForgetIdle == [pc |-> "idle", arg |-> "", found |-> "", calls |-> <<>>, notices |-> <<>>]

\* a faulty variant of histservForgetHandler: the raw input is enqueued as
\* well as the name the lookup returned
histservForgetHandlerBoth(arg, found) ==
    /\ forget.pc = "idle"
    /\ LET accountName == IF found = "" THEN arg ELSE found IN
       forget' = [pc |-> "done", arg |-> arg, found |-> found,
                  calls |-> <<arg, accountName>>,
                  notices |-> <<<<"Enqueued account %s for message deletion", accountName>>>>]
    /\ UNCHANGED <<exportVars, deleteVars, playVars>>

\* lines 86-96: look the account up, fall back to the input, enqueue, report
histservForgetHandler(arg, found) ==
    /\ forget.pc = "idle"
    /\ LET accountName == IF found = "" THEN arg ELSE found IN
       forget' = [pc |-> "done", arg |-> arg, found |-> found,
                  calls |-> <<accountName>>,
                  notices |-> (IF found = ""
                               THEN <<<<"Could not look up account name, proceeding anyway">>>>
                               ELSE <<>>)
                              \o <<<<"Enqueued account %s for message deletion", accountName>>>>]
    /\ UNCHANGED <<exportVars, deleteVars, playVars>>

(***************************************************************************)
(* PLAY and easySelectHistory                                              *)
(***************************************************************************)
\* the characters the second parameter is made of
Alphabet == {"0", "1", "5", "-", "m", "s"}

RECURSIVE Strings(_)
\* the strings of at most n characters, each a sequence of characters
Strings(n) ==
    IF n = 0 THEN {<<>>}
    ELSE Strings(n - 1) \cup {Append(str, c) : str \in Strings(n - 1), c \in Alphabet}

\* params[0] of PLAY, and strings.ToLower of it
PlayTargets == {"Me", "me", "#general"}
ToLower(target) == IF target = "Me" THEN "me" ELSE target

\* the params of PLAY: <<target>> or <<target, limit>>
PlayParams ==
    {<<t>> : t \in PlayTargets} \cup {<<t, a>> : t \in PlayTargets, a \in Strings(MaxLen)}

\* History.ChathistoryMax
ChathistoryMaxValues == {-1, 0, 50, 150}

\* line 221
DefaultLimit == 100

IsDigit(c) == c \in {"0", "1", "2", "3", "4", "5", "6", "7", "8", "9"}
DigitVal(c) ==
    CASE c = "0" -> 0 [] c = "1" -> 1 [] c = "2" -> 2 [] c = "3" -> 3 [] c = "4" -> 4
      [] c = "5" -> 5 [] c = "6" -> 6 [] c = "7" -> 7 [] c = "8" -> 8 [] c = "9" -> 9

RECURSIVE Num(_)
\* the value of a string of digits
Num(d) == IF d = <<>> THEN 0 ELSE Num(SubSeq(d, 1, Len(d) - 1)) * 10 + DigitVal(d[Len(d)])

\* the characters of str from position i on
From(str, i) == SubSeq(str, i, Len(str))

\* strconv.Atoi: an optional sign and one or more digits (no string of the
\* model is long enough to overflow an int)
Atoi(str) ==
    LET signed == str # <<>> /\ str[1] \in {"-", "+"}
        body == IF signed THEN Tail(str) ELSE str
    IN IF body = <<>> \/ \E i \in 1..Len(body) : ~IsDigit(body[i])
       THEN [err |-> TRUE, value |-> 0]
       ELSE [err |-> FALSE, value |-> IF signed /\ str[1] = "-" THEN 0 - Num(body) ELSE Num(body)]

\* the length of the longest prefix of str made of digits, or of none
DigitsPrefix(str) ==
    IF \E i \in 1..Len(str) : ~IsDigit(str[i])
    THEN (CHOOSE i \in 1..Len(str) : ~IsDigit(str[i]) /\ \A j \in 1..(i-1) : IsDigit(str[j])) - 1
    ELSE Len(str)
UnitPrefix(str) ==
    IF \E i \in 1..Len(str) : IsDigit(str[i])
    THEN (CHOOSE i \in 1..Len(str) : IsDigit(str[i]) /\ \A j \in 1..(i-1) : ~IsDigit(str[j])) - 1
    ELSE Len(str)

\* time's unitMap, in milliseconds (the units below a millisecond cannot be
\* written with the model's characters)
KnownUnit(u) == u \in {<<"m", "s">>, <<"s">>, <<"m">>, <<"h">>}
UnitMillis(u) ==
    CASE u = <<"m", "s">> -> 1 [] u = <<"s">> -> 1000 [] u = <<"m">> -> 60000
      [] u = <<"h">> -> 3600000

RECURSIVE DurationGroups(_)
\* the loop of time.ParseDuration: groups of digits followed by a unit
DurationGroups(str) ==
    IF str = <<>> THEN [err |-> FALSE, value |-> 0]
    ELSE LET nd == DigitsPrefix(str)
             after == From(str, nd + 1)
             nu == UnitPrefix(after)
             unit == SubSeq(after, 1, nu)
         IN IF nd = 0 \/ nu = 0 \/ ~KnownUnit(unit)
            THEN [err |-> TRUE, value |-> 0]
            ELSE LET rest == DurationGroups(From(after, nu + 1)) IN
                 IF rest.err THEN rest
                 ELSE [err |-> FALSE,
                       value |-> Num(SubSeq(str, 1, nd)) * UnitMillis(unit) + rest.value]

\* time.ParseDuration: [-+]?([0-9]*[a-z]+)+, or "0"; 0 with an error otherwise
ParseDuration(str) ==
    LET signed == str # <<>> /\ str[1] \in {"-", "+"}
        body == IF signed THEN Tail(str) ELSE str
    IN IF body = <<"0">> THEN [err |-> FALSE, value |-> 0]
       ELSE IF body = <<>> THEN [err |-> TRUE, value |-> 0]
       ELSE LET g == DurationGroups(body) IN
            IF g.err THEN g
            ELSE [err |-> FALSE, value |-> IF signed /\ str[1] = "-" THEN 0 - g.value ELSE g.value]

\* a faulty variant of Clamp: the configured maximum is not applied
NoClamp(limit, max) == limit

\* lines 222-224 and 229-231: if maxChathistoryLimit < limit { limit = maxChathistoryLimit }
Clamp(limit, max) == IF max < limit THEN max ELSE limit

\* a faulty variant of ResolveLimit: a parsed duration leaves the limit alone
ResolveLimitKeepDefault(params, max) ==
    LET default == Clamp(DefaultLimit, max) IN
    IF Len(params) <= 1 THEN [limit |-> default, duration |-> 0, parsers |-> <<>>]
    ELSE LET a == Atoi(params[2]) IN
         IF ~a.err /\ a.value # 0
         THEN [limit |-> Clamp(a.value, max), duration |-> 0, parsers |-> <<"Atoi">>]
         ELSE IF a.err
         THEN [limit |-> default,
               duration |-> IF ~ParseDuration(params[2]).err
                            THEN ParseDuration(params[2]).value ELSE 0,
               parsers |-> <<"Atoi", "ParseDuration">>]
         ELSE [limit |-> default, duration |-> 0, parsers |-> <<"Atoi">>]

\* a faulty variant of ResolveLimit: a plain else, so that a zero count goes on
\* to the duration parser
ResolveLimitFallThrough(params, max) ==
    LET default == Clamp(DefaultLimit, max) IN
    IF Len(params) <= 1 THEN [limit |-> default, duration |-> 0, parsers |-> <<>>]
    ELSE LET a == Atoi(params[2]) IN
         IF ~a.err /\ a.value # 0
         THEN [limit |-> Clamp(a.value, max), duration |-> 0, parsers |-> <<"Atoi">>]
         ELSE LET d == ParseDuration(params[2]) IN
              [limit |-> IF ~d.err THEN max ELSE default,
               duration |-> IF ~d.err THEN d.value ELSE 0,
               parsers |-> <<"Atoi", "ParseDuration">>]

\* lines 219-238: the limit and the duration after the second parameter is
\* read, and the parsers that were called on it
ResolveLimit(params, max) ==
    LET default == Clamp(DefaultLimit, max) IN
    IF Len(params) <= 1 THEN [limit |-> default, duration |-> 0, parsers |-> <<>>]
    ELSE LET a == Atoi(params[2]) IN
         IF ~a.err /\ a.value # 0
         THEN [limit |-> Clamp(a.value, max), duration |-> 0, parsers |-> <<"Atoi">>]
         ELSE IF a.err
         THEN LET d == ParseDuration(params[2]) IN
              [limit |-> IF ~d.err THEN max ELSE default,
               duration |-> IF ~d.err THEN d.value ELSE 0,
               parsers |-> <<"Atoi", "ParseDuration">>]
         ELSE [limit |-> default, duration |-> 0, parsers |-> <<"Atoi">>]

\* history.Selector{} and history.Selector{Time: now.Add(-d)}
EmptySelector == [set |-> FALSE, nowMinus |-> 0]
TimeSelector(d) == [set |-> TRUE, nowMinus |-> d]

\* lines 240-247: the arguments of the one sequence.Between call
BetweenArgs(r) ==
    IF r.duration = 0
    THEN [start |-> EmptySelector, end |-> EmptySelector, limit |-> r.limit]
    ELSE [start |-> TimeSelector(0), end |-> TimeSelector(r.duration), limit |-> r.limit]

\* lines 208-249: lookup is what GetHistorySequence returned ("ok", "nil" for
\* no sequence, "err"), failed whether Between returned an error
easySelectHistory(params, max, lookup, failed, stored) ==
    LET target == IF ToLower(params[1]) = "me" THEN "*" ELSE params[1] IN
    IF lookup # "ok"
    THEN [target |-> target, err |-> "errNoSuchChannel", queries |-> <<>>, items |-> <<>>,
          parsers |-> <<>>]
    ELSE [target |-> target,
          err |-> IF failed THEN "between failed" ELSE "nil",
          queries |-> <<BetweenArgs(ResolveLimit(params, max))>>,
          parsers |-> ResolveLimit(params, max).parsers,
          items |-> IF failed THEN <<>> ELSE stored]

\* the items of the history sequence: a type and the number of split parts
ItemTypes == {"privmsg", "notice", "join"}

\* a notice sent by the PLAY handler: a fixed text, or (text "") the
\* formatted line of part `part` of item `item` (part 0: the whole message)
FixedLine(text) == [text |-> text, item |-> 0, part |-> 0]
ItemLine(i, p) == [text |-> "", item |-> i, part |-> p]

\* a faulty variant of PlayItem: a split item is sent whole and in parts
PlayItemWholeAndParts(i, item) ==
    IF item.type \notin {"privmsg", "notice"} THEN <<>>
    ELSE [p \in 1..(item.split + 1) |-> ItemLine(i, p - 1)]

\* lines 192-201: the lines of one item
PlayItem(i, item) ==
    IF item.type \notin {"privmsg", "notice"} THEN <<>>
    ELSE IF item.split = 0 THEN <<ItemLine(i, 0)>>
    ELSE [p \in 1..item.split |-> ItemLine(i, p)]

RECURSIVE PlayItems(_, _)
\* lines 190-202: the lines of the items from position i on
PlayItems(items, i) ==
    IF i > Len(items) THEN <<>> ELSE PlayItem(i, items[i]) \o PlayItems(items, i + 1)

PlayIdle ==
    [pc |-> "idle", params |-> <<>>, max |-> 0, lookup |-> "", target |-> "",
     err |-> "nil", queries |-> <<>>, parsers |-> <<>>, out |-> <<>>]

\* a faulty variant of histservPlayHandler: no return after the failure notice
histservPlayHandlerNoReturn(params, max, lookup, failed) ==
    /\ LET r == easySelectHistory(params, max, lookup, failed, store) IN
       play' = [pc |-> "done", params |-> params, max |-> max, lookup |-> lookup,
                target |-> r.target, err |-> r.err, queries |-> r.queries,
                parsers |-> r.parsers,
                out |-> (IF r.err # "nil" THEN <<FixedLine("Could not retrieve history")>>
                         ELSE <<>>)
                        \o Append(PlayItems(r.items, 1), FixedLine("End of history playback"))]
    /\ UNCHANGED <<store, exportVars, deleteVars, forgetVars>>

\* lines 179-205: select the history, then send one notice per line
histservPlayHandler(params, max, lookup, failed) ==
    /\ LET r == easySelectHistory(params, max, lookup, failed, store) IN
       play' = [pc |-> "done", params |-> params, max |-> max, lookup |-> lookup,
                target |-> r.target, err |-> r.err, queries |-> r.queries,
                parsers |-> r.parsers,
                out |-> IF r.err # "nil" THEN <<FixedLine("Could not retrieve history")>>
                        ELSE Append(PlayItems(r.items, 1), FixedLine("End of history playback"))]
    /\ UNCHANGED <<store, exportVars, deleteVars, forgetVars>>

\* what the sequence holds when the resolver's claims are checked
StoreContents ==
    {<<>>,
     <<[type |-> "privmsg", split |-> 0], [type |-> "join", split |-> 0],
       [type |-> "notice", split |-> 2]>>}

\* an operator is connected; no EXPORT has been handled yet
InitExport ==
    /\ clients = [present |-> TRUE, oper |-> TRUE]
    /\ units = [u \in Units |-> NoUnit]
    /\ handler = HandlerIdle
    /\ crashed = FALSE
    /\ world = World0
    /\ del = DelIdle
    /\ store = <<>>
    /\ play = PlayIdle
    /\ forget = ForgetIdle

\* an unprivileged, logged-out actor; no DELETE has been handled yet
InitDelete ==
    /\ clients = [present |-> TRUE, oper |-> TRUE]
    /\ units = [u \in Units |-> NoUnit]
    /\ handler = HandlerIdle
    /\ crashed = FALSE
    /\ world = World0
    /\ del = DelIdle
    /\ store = <<>>
    /\ play = PlayIdle
    /\ forget = ForgetIdle

NextDelete ==
    \/ \E params \in DeleteParams : DeleteAuthorize(params)
    \/ \E err \in StoreErrors : DeleteMessageCall(err)
    \/ \E b \in BOOLEAN : SetAllowIndividualDelete(b)
    \/ \E b \in BOOLEAN : SetRole(b)
    \/ \E a \in Accounts : SetAccount(a)
    \/ \E c \in Channels, b \in BOOLEAN : SetChanop(c, b)

SpecDelete == InitDelete /\ [][NextDelete]_vars

NextExport ==
    \/ \E arg \in AccountArgs, opened \in BOOLEAN : ExportHandler(arg, opened)
    \/ ExportHandlerReturn
    \/ \E u \in Units : UnitStep(u)
    \/ ClientQuit
    \/ ClientConnect
    \/ \E b \in BOOLEAN : ClientSetOper(b)

SpecExport == InitExport /\ [][NextExport]_vars

\* the sequence holds some items; no PLAY has been handled yet
InitPlay ==
    /\ clients = [present |-> TRUE, oper |-> TRUE]
    /\ units = [u \in Units |-> NoUnit]
    /\ handler = HandlerIdle
    /\ crashed = FALSE
    /\ world = World0
    /\ del = DelIdle
    /\ store \in StoreContents
    /\ play = PlayIdle
    /\ forget = ForgetIdle

\* the connection sends its PLAY command
PlayCommand ==
    /\ play.pc = "idle"
    /\ \E params \in PlayParams, max \in ChathistoryMaxValues,
          lookup \in {"ok", "nil", "err"}, failed \in BOOLEAN :
           histservPlayHandler(params, max, lookup, failed)

NextPlay == PlayCommand

SpecPlay == InitPlay /\ [][NextPlay]_vars

\* the rendering of PLAY: every stored sequence of at most MaxItems items,
\* each split in at most MaxSplit parts
MaxItems == 2
MaxSplit == 2
Items == [type : ItemTypes, split : 0..MaxSplit]
RECURSIVE ItemSeqs(_)
ItemSeqs(n) ==
    IF n = 0 THEN {<<>>}
    ELSE ItemSeqs(n - 1) \cup {Append(q, it) : q \in ItemSeqs(n - 1), it \in Items}

InitRender ==
    /\ clients = [present |-> TRUE, oper |-> TRUE]
    /\ units = [u \in Units |-> NoUnit]
    /\ handler = HandlerIdle
    /\ crashed = FALSE
    /\ world = World0
    /\ del = DelIdle
    /\ store \in ItemSeqs(MaxItems)
    /\ play = PlayIdle
    /\ forget = ForgetIdle

\* a PLAY command without a limit; the connection may send it again
RenderCommand ==
    \E target \in PlayTargets, max \in {50}, lookup \in {"ok", "nil"}, failed \in BOOLEAN :
        histservPlayHandler(<<target>>, max, lookup, failed)

NextRender == RenderCommand

SpecRender == InitRender /\ [][NextRender]_vars

\* the Go scheduler runs every runnable goroutine, and the store's Export call
\* returns or panics
\* one connection sending EXPORT, DELETE and FORGET commands one after the
\* other while the export goroutines run; the role of the actor may change
NoCommand == handler.pc = "idle" /\ del.pc = "idle" /\ forget.pc = "idle"

ExportCommand ==
    /\ NoCommand
    /\ \E arg \in AccountArgs, opened \in BOOLEAN : ExportHandler(arg, opened)

DeleteCommand ==
    /\ NoCommand
    /\ \E params \in DeleteParams : DeleteAuthorize(params)

ForgetCommand ==
    /\ NoCommand
    /\ \E arg \in ForgetArgs, found \in LookupResults : histservForgetHandler(arg, found)

\* the DELETE or FORGET handler returns; the connection takes its next command
HandlerReturn ==
    /\ del.pc = "done" \/ forget.pc = "done"
    /\ del' = DelIdle
    /\ forget' = ForgetIdle
    /\ UNCHANGED <<world, exportVars, playVars>>

InitRequests ==
    /\ clients = [present |-> TRUE, oper |-> TRUE]
    /\ units = [u \in Units |-> NoUnit]
    /\ handler = HandlerIdle
    /\ crashed = FALSE
    /\ world = World0
    /\ del = DelIdle
    /\ store = <<>>
    /\ play = PlayIdle
    /\ forget = ForgetIdle

NextRequests ==
    \/ ExportCommand
    \/ ExportHandlerReturn
    \/ \E u \in Units : UnitStep(u)
    \/ DeleteCommand
    \/ \E err \in StoreErrors : DeleteMessageCall(err)
    \/ ForgetCommand
    \/ HandlerReturn
    \/ \E b \in BOOLEAN : SetRole(b)

SpecRequests == InitRequests /\ [][NextRequests]_vars

FairSpecExport ==
    /\ SpecExport
    /\ \A u \in Units : WF_vars(UnitStep(u))
    /\ WF_vars(ExportHandlerReturn)

(***************************************************************************)
(* Properties of EXPORT and of the export goroutine                        *)
(***************************************************************************)
Started(u) == units[u].pc # "idle"
Running(u) == units[u].pc \in {"start", "in_export", "lookup", "send"}
Sent(u) == Count(units[u].trace, "notice")

\* C1: when os.Create fails no export goroutine is started: no goroutine runs
\* with a destination that was not opened, and none makes the store's Export
\* call or sends a completion notice for such a request.
OpenFailureStartsNoUnit ==
    \A u \in Units : ~units[u].opened => units[u].pc = "idle" /\ units[u].trace = <<>>

\* C2: within one export goroutine Export runs first, then the writer is
\* flushed and the destination closed, and the completion notice is sent only
\* after that (stated of the goroutines whose destination was opened).
NoticeAfterFlushAndClose ==
    \A u \in Units :
        LET t == units[u].trace IN
        (units[u].opened /\ Count(t, "notice") > 0) =>
            /\ Pos(t, "export") # 0 /\ Pos(t, "export") < Pos(t, "flush")
            /\ Pos(t, "flush") # 0 /\ Pos(t, "flush") < Pos(t, "notice")
            /\ Pos(t, "close") # 0 /\ Pos(t, "close") < Pos(t, "notice")

\* C3: every export goroutine that starts has called Close on its destination
\* exactly once when it ends, whether Export returned nil, returned an error or
\* panicked; at no time has it closed it twice, and an opened file ends closed.
ClosedExactlyOnce ==
    \A u \in Units :
        /\ Count(units[u].trace, "close") <= 1
        /\ units[u].pc \in {"done", "crashed"} =>
              /\ Count(units[u].trace, "close") = 1
              /\ units[u].opened => units[u].outfile = "closed"
        /\ Running(u) => Count(units[u].trace, "close") = 0

ClosedOnPanicPath ==
    \E u \in Units :
        /\ units[u].pc = "done" /\ units[u].outcome = "panic" /\ units[u].opened
        /\ Count(units[u].trace, "close") = 1 /\ units[u].outfile = "closed"

\* C4: a panic inside an export goroutine, in Export or while notifying, is
\* recovered and logged by that goroutine, which then ends; the process is
\* not brought down and every other goroutine can still take its next step.
PanicStaysInUnit ==
    /\ ~crashed
    /\ \A u \in Units :
        /\ units[u].pc # "crashed"
        /\ units[u].pc = "done" => units[u].logged = (IF units[u].faulted THEN 1 ELSE 0)
        /\ Running(u) => ENABLED UnitStep(u)
    /\ handler.pc = "return" => ENABLED ExportHandlerReturn

PanicRecoveredOthersRun ==
    \E u, v \in Units :
        /\ u # v
        /\ units[u].pc = "done" /\ units[u].faulted /\ units[u].logged = 1
        /\ units[u].outcome = "ok"
        /\ units[v].pc = "done" /\ units[v].outcome = "panic" /\ units[v].logged = 1

\* C5: an export goroutine sends at most one completion notice, and only when
\* Export did not panic and the lookup made after it found a connection under
\* the requester's nick holding the "history" role; after a panic, or with the
\* requester gone or without the role, it sends nothing.
NoticeOnlyToPresentOper ==
    \A u \in Units :
        /\ Sent(u) <= 1
        /\ Sent(u) = 1 =>
              /\ units[u].outcome \in {"ok", "err"}
              /\ Count(units[u].trace, "lookup") = 1
              /\ units[u].seen.present /\ units[u].seen.oper
        /\ units[u].outcome = "panic" => Sent(u) = 0
        /\ (units[u].pc = "done" /\ ~(units[u].seen.present /\ units[u].seen.oper))
              => Sent(u) = 0

NoticeSentAndWithheld ==
    \E u, v \in Units :
        /\ units[u].pc = "done" /\ Sent(u) = 1 /\ units[u].outcome = "err"
        /\ units[v].pc = "done" /\ Sent(v) = 0 /\ units[v].outcome = "ok"
        /\ units[v].seen.present /\ ~units[v].seen.oper

\* C6: the handler returns without waiting for the goroutine it started (its
\* return is enabled as soon as it has sent its notice), a goroutine that has
\* not ended can always take its next step whatever the others do, and every
\* goroutine that starts ends.
ExportIsDetached ==
    /\ [](handler.pc = "return" => ENABLED ExportHandlerReturn)
    /\ [](\A u \in Units : Running(u) => ENABLED UnitStep(u))
    /\ \A u \in Units : Started(u) ~> (units[u].pc = "done")

HandlerReturnedWhileExporting ==
    /\ handler.pc = "idle"
    /\ units[1].pc = "in_export"
    /\ units[2].pc = "done"

\* the goroutines started so far
StartedCount == Cardinality({u \in Units : Started(u)})

\* C19: in every export goroutine and on every way out of it, after a return
\* and after a panic alike, writer.Flush is called before outfile.Close: the
\* file is never closed before the flush, and never closed without one.
FlushBeforeClose ==
    \A u \in Units :
        LET t == units[u].trace IN
        /\ Count(t, "close") > 0 =>
              /\ Count(t, "flush") = 1
              /\ Pos(t, "flush") < Pos(t, "close")
        /\ units[u].pc \in {"done", "crashed"} =>
              (Count(t, "flush") = 1 /\ Count(t, "close") = 1)

FlushedAndClosedAfterSendPanic ==
    \E u \in Units :
        /\ units[u].pc = "done" /\ units[u].faulted /\ units[u].outcome = "err"
        /\ units[u].opened /\ units[u].outfile = "closed"
        /\ units[u].trace = <<"export", "lookup", "flush", "close">>

ExportReplied ==
    handler.pc = "return" =>
        /\ Len(handler.notices) = 1
        /\ handler.notices[1] \in {"Invalid account name", "Error opening export file",
                                   "Started exporting data"}
        /\ CasefoldName(handler.arg).err =>
              /\ handler.notices = <<"Invalid account name">>
              /\ handler.create = "none"
              /\ handler.unit = 0
        /\ ~CasefoldName(handler.arg).err => handler.notices[1] # "Invalid account name"
InvalidAccountStartsNothing ==
    (handler.pc = "idle" /\ handler'.pc = "return" /\ CasefoldName(handler'.arg).err)
        => UNCHANGED units

\* C20: an EXPORT whose account name cannot be casefolded is answered
\* 'Invalid account name' and handled no further: no file is created, no
\* goroutine is started, no 'started' notice is sent; every EXPORT gets
\* exactly one notice from its handler, one of 'Invalid account name',
\* 'Error opening export file' and 'Started exporting data'.
ExportRepliesOnce == []ExportReplied /\ [][InvalidAccountStartsNothing]_vars

InvalidAccountRejected ==
    /\ handler.pc = "return" /\ handler.arg = "a*b"
    /\ handler.notices = <<"Invalid account name">> /\ handler.create = "none"
    /\ \A u \in Units : ~Started(u)

(***************************************************************************)
(* Properties of DELETE                                                    *)
(***************************************************************************)
\* the DELETE handler has evaluated its authorization
Decided == del.pc \in {"authorized", "done"}

\* whether the actor was an operator of the target's channel when the handler decided
WasChanop == del.target \in Channels /\ del.target \in del.in.opIn

\* C7: the decision of the DELETE handler equals the reference table over
\* (privileged, individual delete allowed, channel operator of the target,
\* logged in): privileged => permitted with "*"; unprivileged and disabled =>
\* denied; unprivileged, enabled, channel operator => permitted with "*";
\* unprivileged, enabled, not operator, logged in => permitted with the
\* actor's own account name.
DecisionMatchesTable ==
    Decided =>
        /\ del.in.oper => (~del.denied /\ del.accountName = "*")
        /\ (~del.in.oper /\ ~del.in.allow) => del.denied
        /\ (~del.in.oper /\ del.in.allow /\ WasChanop)
              => (~del.denied /\ del.accountName = "*")
        /\ (~del.in.oper /\ del.in.allow /\ ~WasChanop /\ del.in.account # "*")
              => (~del.denied /\ del.accountName = del.in.account)

OwnAccountDelete ==
    /\ del.pc = "done" /\ Len(del.calls) = 1
    /\ ~del.in.oper /\ del.in.allow /\ ~WasChanop /\ del.in.account = "alice"
    /\ del.calls[1].accountName = "alice"

\* C8: server.DeleteMessage is called if and only if the authorization
\* permitted the request, never before the decision is made, at most once and
\* with the target, msgid and author constraint the decision computed, whatever
\* changed in between; a denied request gets "Insufficient privileges" and no call.
DecisionIsSoleGate ==
    /\ del.pc \in {"idle", "authorized"} => del.calls = <<>>
    /\ del.pc = "authorized" => ~del.denied
    /\ del.pc = "done" => (Len(del.calls) = 1 <=> ~del.denied)
    /\ del.pc = "done" /\ del.denied =>
          del.calls = <<>> /\ del.notice = <<"Insufficient privileges">>
    /\ del.calls # <<>> =>
          /\ Len(del.calls) = 1
          /\ del.calls[1] = [target |-> del.target, msgid |-> del.msgid,
                             accountName |-> Authorize(del.in, del.target).accountName]
          /\ del.notice # <<"Insufficient privileges">>

ConstraintKeptAcrossChange ==
    /\ del.pc = "done" /\ Len(del.calls) = 1
    /\ del.in.account = "alice" /\ world.account = "*"
    /\ ~del.in.oper /\ world.oper
    /\ del.calls[1].accountName = "alice"

\* C9: when the store call fails, the notice to an actor without the role
\* (a permitted channel operator or author included) is the same whatever the
\* error: it is "Could not delete message", and it is what any other error
\* would have produced; only the notice to a privileged actor carries the error.
UnprivilegedFailureIsGeneric ==
    (del.pc = "done" /\ del.calls # <<>> /\ del.err # "nil") =>
        /\ ~del.isOper =>
              /\ del.notice = <<"Could not delete message">>
              /\ \A e \in StoreErrors \ {"nil"} : DeleteReply(del.isOper, e) = del.notice
        /\ del.isOper => del.notice = <<"Error deleting message: %v", del.err>>
        /\ del.isOper = del.in.oper

ChanopSeesGenericFailure ==
    /\ del.pc = "done" /\ del.calls # <<>> /\ del.err = "database failure"
    /\ ~del.isOper /\ del.isChanop
    /\ del.notice = <<"Could not delete message">>

\* C17: an actor without the role who is no operator of the target (no
\* target, or a target that is no channel, included) and is not logged in is
\* denied whether or not individual deletion is allowed, and no
\* server.DeleteMessage call is made; every call made for an actor without
\* the role who is no operator of the target carries the actor's own account
\* name, never the wildcard.
AnonymousIsDenied ==
    Decided =>
        /\ (~del.in.oper /\ ~WasChanop /\ del.in.account = NoAccount) =>
              /\ del.denied /\ del.calls = <<>>
              /\ del.pc = "done" /\ del.notice = <<"Insufficient privileges">>
        /\ \A i \in 1..Len(del.calls) :
              (~del.in.oper /\ ~WasChanop) =>
                  /\ del.calls[i].accountName = del.in.account
                  /\ del.calls[i].accountName # "*"

AnonymousDeniedWhenEnabled ==
    /\ del.pc = "done" /\ del.denied /\ del.calls = <<>>
    /\ del.in.allow /\ ~del.in.oper /\ del.in.account = NoAccount
    /\ del.target = "#nochan"

(***************************************************************************)
(* Properties of the store calls of all handlers                           *)
(***************************************************************************)
NoRepeatedCall ==
    /\ Len(del.calls) <= 1
    /\ del.pc \in {"idle", "authorized"} => del.calls = <<>>
    /\ forget.pc = "idle" => forget.calls = <<>>
    /\ forget.pc = "done" =>
          forget.calls = <<IF forget.found = "" THEN forget.arg ELSE forget.found>>
    /\ \A u \in Units :
          /\ Count(units[u].trace, "export") <= 1
          /\ units[u].pc \in {"done", "crashed"} => Count(units[u].trace, "export") = 1
OneUnitPerRequest ==
    /\ StartedCount' <= StartedCount + 1
    /\ StartedCount' > StartedCount => (handler.pc = "idle" /\ handler'.pc = "return")
    /\ \A u \in Units : Started(u) => Started(u)'

\* C18: nothing is retried: a DELETE makes at most one server.DeleteMessage
\* call, a FORGET exactly one server.ForgetHistory call (with the name the
\* lookup returned, or the input when it returned none), an export goroutine
\* at most one Export call whether that succeeds, fails or panics, and one
\* EXPORT command starts at most one goroutine.
NothingIsRetried == []NoRepeatedCall /\ [][OneUnitPerRequest]_vars

ForgetFallsBackAfterFailedExport ==
    /\ forget.pc = "done" /\ forget.found = "" /\ forget.calls = <<"bob">>
    /\ \E u \in Units :
          /\ units[u].pc = "done" /\ units[u].outcome = "panic"
          /\ Count(units[u].trace, "export") = 1

(***************************************************************************)
(* Properties of PLAY and easySelectHistory                                *)
(***************************************************************************)
\* C10: for every target, parameter list and configured maximum, the limit
\* easySelectHistory passes to Between is at most the configured maximum.
LimitAtMostMax ==
    \A i \in 1..Len(play.queries) : play.queries[i].limit <= play.max

CountAboveMaxIsClamped ==
    /\ play.pc = "done" /\ Len(play.queries) = 1
    /\ Len(play.params) = 2 /\ play.params[2] = <<"5", "5">>
    /\ play.max = 50 /\ play.queries[1].limit = 50

\* the second parameter of the PLAY command handled, and how it parses
HasLimitArg == play.pc = "done" /\ Len(play.queries) = 1 /\ Len(play.params) = 2
NoLimitArg == play.pc = "done" /\ Len(play.queries) = 1 /\ Len(play.params) = 1
ArgCount == Atoi(play.params[2])
ArgDuration == ParseDuration(play.params[2])
Min(a, b) == IF a <= b THEN a ELSE b
Unconstrained(q) == q.start = EmptySelector /\ q.end = EmptySelector

\* C11: the limit passed to Between is min(c, M) when the second parameter
\* is an integer c > 0, M when it is no integer and parses as a duration,
\* and min(100, M) when there is no second parameter or it parses as neither;
\* in that last case the query is Between(empty, empty, limit).
LimitIsReference ==
    /\ HasLimitArg =>
          /\ (~ArgCount.err /\ ArgCount.value > 0)
                => play.queries[1].limit = Min(ArgCount.value, play.max)
          /\ (ArgCount.err /\ ~ArgDuration.err) => play.queries[1].limit = play.max
          /\ (ArgCount.err /\ ArgDuration.err) =>
                /\ play.queries[1].limit = Min(100, play.max)
                /\ Unconstrained(play.queries[1])
    /\ NoLimitArg =>
          /\ play.queries[1].limit = Min(100, play.max)
          /\ Unconstrained(play.queries[1])

DurationRaisesLimitToMax ==
    /\ HasLimitArg /\ play.params[2] = <<"5", "m">> /\ play.max = 150
    /\ play.queries[1].limit = 150

\* C12: whenever the second parameter is no count and parses as a duration
\* d, whatever d is, the one query issued is the backward window
\* Between(now, now - d, configuredMax), never the unconstrained query.
DurationGivesTimeWindow ==
    (HasLimitArg /\ ArgCount.err /\ ~ArgDuration.err) =>
        /\ play.queries[1] = [start |-> TimeSelector(0),
                              end |-> TimeSelector(ArgDuration.value),
                              limit |-> play.max]
        /\ ~Unconstrained(play.queries[1])

\* C13 as claimed: a second parameter that is the integer zero is handed to
\* the duration parser like a non-integer, and when that parse succeeds the
\* limit is configuredMax.
ZeroFallsThroughToDuration ==
    (HasLimitArg /\ ~ArgCount.err /\ ArgCount.value = 0) =>
        /\ Count(play.parsers, "ParseDuration") = 1
        /\ ~ArgDuration.err => play.queries[1].limit = play.max

\* C13 as amended: a second parameter that is the integer zero is not used
\* as a count and is not handed to the duration parser either: the limit
\* stays min(100, configuredMax) and the query is the unconstrained one.
ZeroCountUsesDefault ==
    (HasLimitArg /\ ~ArgCount.err /\ ArgCount.value = 0) =>
        /\ play.parsers = <<"Atoi">>
        /\ play.queries[1].limit = Min(100, play.max)
        /\ Unconstrained(play.queries[1])

ZeroWithLargeMax ==
    /\ HasLimitArg /\ play.params[2] = <<"0">> /\ play.max = 150
    /\ play.queries[1].limit = 100

\* C16: a second parameter that is an integer c <= 0 is not used as the
\* count (stated for c < 0; c = 0 is C13), and with configuredMax >= 0 the
\* limit passed to Between is never negative.
NonPositiveCountNotUsed ==
    \A i \in 1..Len(play.queries) :
        /\ (Len(play.params) = 2 /\ ~ArgCount.err /\ ArgCount.value < 0)
              => play.queries[i].limit # ArgCount.value
        /\ play.max >= 0 => play.queries[i].limit >= 0

\* C14: a failed PLAY, whether the sequence lookup or the Between query
\* failed, sends exactly the one notice 'Could not retrieve history', no item
\* line and no end line; a failed lookup issues no Between query.
PlayFailureIsGeneric ==
    play.pc = "done" =>
        /\ play.lookup # "ok" => (play.err # "nil" /\ play.queries = <<>>)
        /\ play.err # "nil" => play.out = <<FixedLine("Could not retrieve history")>>

BetweenFailureReported ==
    /\ play.pc = "done" /\ play.lookup = "ok" /\ play.err # "nil"
    /\ Len(play.queries) = 1 /\ store # <<>>
    /\ play.out = <<FixedLine("Could not retrieve history")>>

\* the lines the specification expects for one stored item
ExpectedParts(item) ==
    IF item.type \notin {"privmsg", "notice"} THEN {}
    ELSE IF item.split = 0 THEN {0} ELSE 1..item.split
RECURSIVE ExpectedCount(_, _)
ExpectedCount(items, n) ==
    IF n = 0 THEN 0 ELSE ExpectedCount(items, n - 1) + Cardinality(ExpectedParts(items[n]))
Rendered == play.pc = "done" /\ play.err = "nil"
RenderMatches ==
    Rendered =>
        LET out == play.out
            n == Len(out) IN
        /\ n = 1 + ExpectedCount(store, Len(store))
        /\ out[n] = FixedLine("End of history playback")
        /\ \A j \in 1..(n - 1) :
              /\ out[j].text = "" /\ out[j].item \in 1..Len(store)
              /\ out[j].part \in ExpectedParts(store[out[j].item])
        /\ \A i \in 1..Len(store) : \A p \in ExpectedParts(store[i]) :
              Count(out, ItemLine(i, p)) = 1
        /\ \A j \in 1..(n - 1) : \A k \in (j + 1)..(n - 1) :
              \/ out[j].item < out[k].item
              \/ out[j].item = out[k].item /\ out[j].part < out[k].part
        /\ (\A i \in 1..Len(store) : ExpectedParts(store[i]) = {0}) => n = Len(store) + 1
RenderRepeats == (Rendered /\ Rendered') => play'.out = play.out

\* C15: a successful PLAY sends no line for an item that is neither message
\* nor notice, one line for an item without split parts, one line per part in
\* order for a split item, then exactly one end line, which is last; N
\* unsplit messages give N + 1 lines; rendering again gives the same lines.
RenderedLinesMatchItems == []RenderMatches /\ [][RenderRepeats]_vars

SplitItemRendered ==
    /\ Rendered /\ Len(store) = 2
    /\ store[1].type = "join" /\ store[2] = [type |-> "notice", split |-> 2]
    /\ play.out = <<ItemLine(2, 1), ItemLine(2, 2), FixedLine("End of history playback")>>

====
